---- MODULE Spec2Model ----
(***************************************************************************)
(* A model of src/data_loader.py: load_csv(source), the one function of    *)
(* the repository.  A call is followed statement by statement (the two     *)
(* isinstance tests, Path(source).exists(), read_csv(source)), so that the *)
(* filesystem can change between the existence check and the read.  The    *)
(* library calls the function makes are modelled by what they do:          *)
(*   - pathlib.Path(x) normalises the text of a path and rejects bytes,    *)
(*   - Path.exists() and open() resolve a path against the filesystem,     *)
(*   - pandas.read_csv parses with its defaults (header inferred from the  *)
(*     first non-blank line, duplicate names mangled, dtype inference),    *)
(*   - DataFrame.copy() copies the table but not the Python objects that   *)
(*     its cells refer to.                                                 *)
(***************************************************************************)
EXTENDS Naturals, Sequences, FiniteSets, TLC

(* ------------------------------ bounds --------------------------------- *)

\* most trailing "/" a path string given by the caller carries
MaxSlashes == 1
\* most DataFrames alive on the heap
MaxFrames == 2
\* most in-place appends to the one list object a cell may refer to
MaxAppend == 1

(* ------------------------------ paths ---------------------------------- *)

\* names of the entries the working directory may hold
Names == {"a"}

RECURSIVE Slashes(_)
Slashes(k) == IF k = 0 THEN <<>> ELSE <<"/">> \o Slashes(k - 1)

\* the path texts a caller passes: "", "a", "a/", ...
PathStrings == {<<>>} \cup {<<n>> \o Slashes(k) : n \in Names, k \in 0..MaxSlashes}

RECURSIVE StripSlashes(_)
StripSlashes(p) ==
  IF Len(p) > 1 /\ p[Len(p)] = "/" THEN StripSlashes(SubSeq(p, 1, Len(p) - 1)) ELSE p

\* str(pathlib.Path(p)): trailing separators dropped, the empty path is "."
PurePathStr(p) == IF p = <<>> THEN <<".">> ELSE StripSlashes(p)

(* ---------------------------- filesystem -------------------------------- *)

\* CSV files as the lexer sees them: lines of fields, <<>> a blank line
Csv1 == << <<"id", "name">>, <<"1", "x">>, <<"2", "y">> >>
Csv2 == << <<"id", "id">>, <<"1", "2">> >>
Csv3 == << <<"id", "">>, <<"x", "1">> >>
Csv4 == << <<"id">>, <<"1">>, <<"1", "2">> >>
Csv5 == << >>
Csv6 == << <<"id", "name">>, <<>> >>
Contents == {Csv1, Csv2, Csv3, Csv4, Csv5, Csv6}

Absent == [kind |-> "absent"]
Dir == [kind |-> "dir"]
Locked == [kind |-> "locked"]
File(c) == [kind |-> "file", lines |-> c]
Entries == {Absent, Dir, Locked} \cup {File(c) : c \in Contents}

\* what the operating system finds at the text p: an entry, or an errno
Resolve(p, f) ==
  IF p = <<>> THEN [kind |-> "ENOENT"]
  ELSE IF p = <<".">> THEN Dir
  ELSE LET e == f[p[1]] IN
    IF e.kind = "absent" THEN [kind |-> "ENOENT"]
    ELSE IF Len(p) > 1 /\ e.kind # "dir" THEN [kind |-> "ENOTDIR"]
    ELSE e

\* os.path.exists(p): stat succeeds
OsExists(p, f) == Resolve(p, f).kind \in {"dir", "file", "locked"}

(* --------------------------- pandas.read_csv --------------------------- *)

\* a table: column names and rows of cells; a cell is <<dtype, text>>, or
\* <<"object", o>> for a reference to the Python object o
Table(cols, rows) == [columns |-> cols, rows |-> rows]

NaN == <<"float", "nan">>
Digits == {"1", "2"}

\* skip_blank_lines=True: blank lines are dropped before anything else
NonBlank(lines) == SelectSeq(lines, LAMBDA l : l # <<>>)

\* how many of the first i-1 names equal the i-th
Earlier(names, i) == Cardinality({j \in 1..(i - 1) : names[j] = names[i]})

\* header names: an empty field is "Unnamed: <position>", then a repeated name
\* gets the suffix ".<count of earlier occurrences>" (no header of Contents
\* holds a field that is itself such a suffixed name)
HeaderNames(fields) ==
  LET named == [i \in 1..Len(fields) |->
                  IF fields[i] = "" THEN "Unnamed: " \o ToString(i - 1) ELSE fields[i]]
  IN [i \in 1..Len(fields) |->
        IF Earlier(named, i) = 0 THEN named[i]
        ELSE named[i] \o "." \o ToString(Earlier(named, i))]

\* the tokenizer: a line with more fields than the line before it is an error
\* (the header and the first data line are exempt), a shorter one is padded
TooManyFields(recs) ==
  \E i \in 3..Len(recs) : Len(recs[i]) > Len(recs[i - 1])

Field(rec, c) == IF c <= Len(rec) THEN rec[c] ELSE ""

\* dtype inference, column by column: all integers, integers with missing
\* values (float), or text; an empty field is a missing value
ColumnFields(data, c) == {Field(data[r], c) : r \in 1..Len(data)}

InferCell(data, r, c) ==
  LET col == ColumnFields(data, c)
      f == Field(data[r], c)
  IN IF f = "" THEN NaN
     ELSE IF col \subseteq Digits THEN <<"int64", f>>
     ELSE IF col \subseteq Digits \cup {""} THEN <<"float", f>>
     ELSE <<"str", f>>

\* (faulty variant: header=None, the first line is data too and the columns
\* are numbered)
ParseLinesNoHeader(lines) ==
  LET recs == NonBlank(lines) IN
  IF recs = <<>> THEN [kind |-> "error", exc |-> "EmptyDataError"]
  ELSE [kind |-> "table",
        table |-> Table([c \in 1..Len(recs[1]) |-> ToString(c - 1)],
                        [r \in 1..Len(recs) |->
                           [c \in 1..Len(recs[1]) |-> InferCell(recs, r, c)]])]

\* read_csv's parse of a file's lines with the defaults the call leaves in force
\* (no file of Contents has a first data line wider than its header, which
\* pandas would read as an implicit index)
ParseLines(lines) ==
  LET recs == NonBlank(lines) IN
  IF recs = <<>> THEN [kind |-> "error", exc |-> "EmptyDataError"]
  ELSE IF TooManyFields(recs) THEN [kind |-> "error", exc |-> "ParserError"]
  ELSE LET data == Tail(recs)
           n == Len(recs[1])
       IN [kind |-> "table",
           table |-> Table(HeaderNames(recs[1]),
                           [r \in 1..Len(data) |->
                              [c \in 1..n |-> InferCell(data, r, c)]])]

\* open(p) for reading, as read_csv does on the path text it is given
OpenRead(p, f) ==
  LET e == Resolve(p, f) IN
  IF e.kind = "file" THEN [kind |-> "lines", lines |-> e.lines]
  ELSE [kind |-> "error",
        exc |-> CASE e.kind = "ENOENT" -> "FileNotFoundError"
                  [] e.kind = "ENOTDIR" -> "NotADirectoryError"
                  [] e.kind = "dir" -> "IsADirectoryError"
                  [] e.kind = "locked" -> "PermissionError"]

(* ------------------------------ the heap -------------------------------- *)

\* the one mutable Python object (a list) that a cell can refer to
Obj == "L"

\* tables the caller may have built before calling load_csv
Frame1 == Table(<<"k", "v">>, << <<<<"int64", "1">>, <<"object", Obj>>>> >>)
Frame2 == Table(<<"k">>, << <<<<"str", "x">>>>, <<<<"str", "y">>>> >>)
InitFrames == {Frame1, Frame2}

\* DataFrame.copy(): a new DataFrame whose columns and rows are copies; a cell
\* that refers to a Python object still refers to the same object.  h is the
\* heap (a DataFrame's identity is its index), the result the new heap and
\* the identity of the copy
\* (faulty variant: "return it", the argument itself and no copy)
ReturnSame(h, ref) == [heap |-> h, ref |-> ref]

DataFrameCopy(h, ref) == [heap |-> Append(h, h[ref]), ref |-> Len(h) + 1]

\* a table as a reader sees it: object cells show the object's current state
CellValue(cell, o) == IF cell[1] = "object" THEN <<"list", ToString(o[cell[2]])>> ELSE cell

Value(t, o) ==
  [columns |-> t.columns,
   rows |-> [r \in 1..Len(t.rows) |->
               [c \in 1..Len(t.rows[r]) |-> CellValue(t.rows[r][c], o)]]]

(* ------------------------------- sources -------------------------------- *)

Src(tag, path, ref) == [tag |-> tag, path |-> path, ref |-> ref]

\* runtime types that are neither DataFrame nor str, bytes or os.PathLike
OtherTypes == {"int", "NoneType", "list"}

\* what a caller can pass when the heap is h; a path object is built by
\* pathlib.Path(text), so it holds the normalised text
Sources(h) ==
  {Src("DataFrame", <<>>, i) : i \in 1..Len(h)}
    \cup {Src("str", p, 0) : p \in PathStrings}
    \cup {Src("bytes", p, 0) : p \in PathStrings}
    \cup {Src("PathLike", PurePathStr(p), 0) : p \in PathStrings}
    \cup {Src(t, <<>>, 0) : t \in OtherTypes}

IsPathInput(s) == s.tag \in {"str", "bytes", "PathLike"}

(* ------------------------------- outcomes ------------------------------- *)

NoOutcome == [kind |-> "none", ref |-> 0, exc |-> "", origin |-> "", text |-> "", arg |-> <<>>]

Returned(ref) == [NoOutcome EXCEPT !.kind = "table", !.ref = ref]

Raised(exc, origin, text, arg) ==
  [kind |-> "error", ref |-> 0, exc |-> exc, origin |-> origin, text |-> text, arg |-> arg]

(* -------------------------------- state --------------------------------- *)

VARIABLES
  fs,       \* the working directory: name -> entry
  heap,     \* the DataFrames alive; a DataFrame's identity is its index
  objs,     \* the state of the Python objects cells refer to (a list's length)
  pc,       \* where the call is: "idle", "exists" (line 17), "read" (line 21), "done"
  source,   \* the argument of the current or last call
  outcome,  \* what the current or last call returned or raised
  fsOps,    \* the filesystem accesses the current or last call made
  dirty,    \* the filesystem changed while the current or last call ran
  prev,     \* the last path call that ran, start to end, on the filesystem as it is now
  last,     \* the last call, if it copied a DataFrame: the original and the copy
  mut       \* the caller's last mutation since the last call

vars == <<fs, heap, objs, pc, source, outcome, fsOps, dirty, prev, last, mut>>

NoSource == Src("none", <<>>, 0)
NoPrev == [source |-> NoSource, result |-> <<"none">>]
NoCopy == [from |-> 0, to |-> 0]
NoMut == [op |-> "none", df |-> 0]

Init ==
  /\ fs = [n \in Names |-> Absent]
  /\ \E t \in InitFrames : heap = <<t>>
  /\ objs = [o \in {Obj} |-> 0]
  /\ pc = "idle"
  /\ source = NoSource
  /\ outcome = NoOutcome
  /\ fsOps = <<>>
  /\ dirty = FALSE
  /\ prev = NoPrev
  /\ last = NoCopy
  /\ mut = NoMut

(* ------------------------------- load_csv ------------------------------- *)

\* pathlib.Path(source): the normalised text, or TypeError for bytes
PathCtor(s) ==
  IF s.tag = "bytes" THEN [kind |-> "error", exc |-> "TypeError"]
  ELSE [kind |-> "path", path |-> PurePathStr(s.path)]

\* the text read_csv opens: the str as given, or a path object's __fspath__()
FsPath(s) == s.path

\* (faulty variant: the test of lines 13-14 is missing)
DispatchNoTypeCheck(s, h) ==
  IF s.tag = "DataFrame"
    THEN LET c == DataFrameCopy(h, s.ref) IN [heap |-> c.heap, outcome |-> Returned(c.ref)]
  ELSE [heap |-> h, outcome |-> NoOutcome]

\* (faulty variant: the test of lines 9-10 is missing, a DataFrame is taken
\* for a path)
DispatchNoTableBranch(s, h) ==
  IF ~IsPathInput(s) /\ s.tag # "DataFrame"
    THEN [heap |-> h,
          outcome |-> Raised("TypeError", "load_csv",
                             "source must be a file path or a pandas dataframe: {}", <<s.tag>>)]
  ELSE [heap |-> h, outcome |-> NoOutcome]

\* lines 9-14: the two isinstance tests.  The result is the outcome if the
\* call ends here (with the heap after it), or "go on" to the existence check
Dispatch(s, h) ==
  IF s.tag = "DataFrame"
    THEN LET c == DataFrameCopy(h, s.ref) IN [heap |-> c.heap, outcome |-> Returned(c.ref)]
  ELSE IF ~IsPathInput(s)
    THEN [heap |-> h,
          outcome |-> Raised("TypeError", "load_csv",
                             "source must be a file path or a pandas dataframe: {}", <<s.tag>>)]
  ELSE [heap |-> h, outcome |-> NoOutcome]

\* (faulty variant: lines 17-18 are missing, the file is read unchecked)
ExistsCheckSkipped(s, f) == [ops |-> <<>>, outcome |-> NoOutcome]

\* lines 17-18: Path(source).exists(), and the error raised when it is false.
\* The result is the accesses made and the outcome if the call ends here
ExistsCheck(s, f) ==
  LET p == PathCtor(s) IN
  IF p.kind = "error"
    THEN [ops |-> <<>>, outcome |-> Raised(p.exc, "pathlib", "", <<>>)]
  ELSE IF ~OsExists(p.path, f)
    THEN [ops |-> << <<"stat", p.path>> >>,
          outcome |-> Raised("FileNotFoundError", "load_csv", "File {} not found.", s.path)]
  ELSE [ops |-> << <<"stat", p.path>> >>, outcome |-> NoOutcome]

\* (faulty variant: a failure of read_csv is caught and reported as the
\* missing file of line 18)
ReadCsvWrap(s, f, h) ==
  LET o == OpenRead(FsPath(s), f)
      t == ParseLines(o.lines)
  IN IF o.kind = "lines" /\ t.kind = "table"
       THEN [heap |-> Append(h, t.table), outcome |-> Returned(Len(h) + 1)]
     ELSE [heap |-> h,
           outcome |-> Raised("FileNotFoundError", "load_csv", "File {} not found.", s.path)]

\* line 21: return read_csv(source); nothing is caught
ReadCsv(s, f, h) ==
  LET o == OpenRead(FsPath(s), f) IN
  IF o.kind = "error" THEN [heap |-> h, outcome |-> Raised(o.exc, "read_csv", "", <<>>)]
  ELSE LET t == ParseLines(o.lines) IN
    IF t.kind = "error" THEN [heap |-> h, outcome |-> Raised(t.exc, "read_csv", "", <<>>)]
    ELSE [heap |-> Append(h, t.table), outcome |-> Returned(Len(h) + 1)]

\* (faulty variant: the file is opened for writing, which creates or
\* truncates it)
FsAfterOpenWrite(p, f) ==
  IF p # <<>> /\ p[1] \in Names /\ Resolve(p, f).kind \in {"file", "ENOENT"}
    THEN [f EXCEPT ![p[1]] = File(<<>>)]
  ELSE f

\* the filesystem after read_csv opened p: the file is opened for reading
FsAfterOpen(p, f) == f

\* the caller calls load_csv(s); lines 9-14 run
Call(s) ==
  /\ pc = "idle"
  /\ Len(heap) < MaxFrames
  /\ LET d == Dispatch(s, heap) IN
       /\ heap' = d.heap
       /\ outcome' = d.outcome
       /\ pc' = IF d.outcome.kind = "none" THEN "exists" ELSE "done"
       /\ last' = IF d.outcome.kind = "table" THEN [from |-> s.ref, to |-> d.outcome.ref]
                  ELSE NoCopy
  /\ source' = s
  /\ fsOps' = <<>>
  /\ dirty' = FALSE
  /\ mut' = NoMut
  /\ UNCHANGED <<fs, objs, prev>>

\* lines 17-18
Exists ==
  /\ pc = "exists"
  /\ LET e == ExistsCheck(source, fs) IN
       /\ fsOps' = fsOps \o e.ops
       /\ outcome' = e.outcome
       /\ pc' = IF e.outcome.kind = "none" THEN "read" ELSE "done"
  /\ UNCHANGED <<fs, heap, objs, source, dirty, prev, last, mut>>

\* line 21
Read ==
  /\ pc = "read"
  /\ LET r == ReadCsv(source, fs, heap) IN
       /\ heap' = r.heap
       /\ outcome' = r.outcome
  /\ fsOps' = Append(fsOps, <<"open", FsPath(source)>>)
  /\ fs' = FsAfterOpen(FsPath(source), fs)
  /\ pc' = "done"
  /\ UNCHANGED <<objs, source, dirty, prev, last, mut>>

\* what a caller can compare of an outcome: the table's value, or the error's type
Result(o, h, ob) ==
  IF o.kind = "table" THEN <<"table", Value(h[o.ref], ob)>> ELSE <<"error", o.exc>>

\* the call is over: its frame is gone and the caller has the result, which
\* it may remember (keep) to compare a later call's with
Return(keep) ==
  /\ pc = "done"
  /\ pc' = "idle"
  /\ prev' = IF keep /\ IsPathInput(source) /\ ~dirty
               THEN [source |-> source, result |-> Result(outcome, heap, objs)]
               ELSE prev
  /\ source' = NoSource
  /\ outcome' = NoOutcome
  /\ fsOps' = <<>>
  /\ dirty' = FALSE
  /\ UNCHANGED <<fs, heap, objs, last, mut>>

(* ----------------------- the caller, between calls ---------------------- *)

\* df.iat[r, 0] = "z": the first cell of a row is replaced
SetCell(i, r) ==
  /\ pc = "idle"
  /\ heap[i].rows[r][1] # <<"str", "z">>
  /\ heap' = [heap EXCEPT ![i].rows[r][1] = <<"str", "z">>]
  /\ mut' = [op |-> "set", df |-> i]
  /\ UNCHANGED <<fs, objs, pc, source, outcome, fsOps, dirty, prev, last>>

\* df.iat[r, c].append(x): the object the cell refers to is changed in place
AppendTo(i, r, c) ==
  /\ pc = "idle"
  /\ heap[i].rows[r][c][1] = "object"
  /\ objs[heap[i].rows[r][c][2]] < MaxAppend
  /\ objs' = [objs EXCEPT ![heap[i].rows[r][c][2]] = @ + 1]
  /\ mut' = [op |-> "append", df |-> i]
  /\ UNCHANGED <<fs, heap, pc, source, outcome, fsOps, dirty, prev, last>>

\* del df, for the DataFrame made last
Del ==
  /\ pc = "idle"
  /\ Len(heap) > 1
  /\ heap' = SubSeq(heap, 1, Len(heap) - 1)
  /\ last' = IF last.to = Len(heap) THEN NoCopy ELSE last
  /\ mut' = IF mut.df = Len(heap) THEN NoMut ELSE mut
  /\ UNCHANGED <<fs, objs, pc, source, outcome, fsOps, dirty, prev>>

(* ------------------------- the rest of the system ----------------------- *)

\* another process creates, replaces or removes an entry, at any time
SetEntry(n, e) ==
  /\ fs[n] # e
  /\ fs' = [fs EXCEPT ![n] = e]
  /\ dirty' = (pc # "idle")
  /\ prev' = NoPrev
  /\ UNCHANGED <<heap, objs, pc, source, outcome, fsOps, last, mut>>

Next ==
  \/ \E s \in Sources(heap) : Call(s)
  \/ Exists
  \/ Read
  \/ \E keep \in BOOLEAN : Return(keep)
  \/ \E i \in 1..Len(heap) : \E r \in 1..Len(heap[i].rows) : SetCell(i, r)
  \/ \E i \in 1..Len(heap) : \E r \in 1..Len(heap[i].rows) :
       \E c \in 1..Len(heap[i].rows[r]) : AppendTo(i, r, c)
  \/ Del
  \/ \E n \in Names : \E e \in Entries : SetEntry(n, e)

Spec == Init /\ [][Next]_vars

(* ------------------------------ properties ------------------------------ *)

\* the call made an access of this kind ("stat" or "open")
Did(kind) == \E i \in 1..Len(fsOps) : fsOps[i][1] = kind

\* C1: a str, bytes or path-like source is taken for a path and reaches the
\* existence check; load_csv never ends in TypeError for it.  (Stated as the
\* claim has it; the bytes case refutes it: Path(b"...") raises TypeError.)
C1_PathInputReachesExistenceCheck ==
  (pc = "done" /\ IsPathInput(source)) =>
    (outcome.exc # "TypeError" /\ Did("stat"))

MutationOf(i) ==
  /\ pc = "idle" /\ pc' = "idle"
  /\ Len(heap') = Len(heap)
  /\ heap' # heap \/ objs' # objs
  /\ mut'.df = i

\* C3: after r = load_csv(t), no mutation of r changes a value of t and no
\* mutation of t changes a value of r, also when cells hold mutable objects.
\* (Stated as the claim has it; a cell's object is shared by t and r, so an
\* in-place change made through one shows in the other.)
C3_NoSharedMutableState ==
  [][(last.to # 0 /\ last' = last) =>
       /\ MutationOf(last.to) =>
            Value(heap'[last.from], objs') = Value(heap[last.from], objs)
       /\ MutationOf(last.from) =>
            Value(heap'[last.to], objs') = Value(heap[last.to], objs)]_vars

\* C4: a source that is no DataFrame, str, bytes or path-like object ends in
\* load_csv's TypeError, which names the type, and the call never comes to the
\* existence check or the read: no filesystem access is made.
C4_InvalidTypeRejectedFirst ==
  (source.tag \in OtherTypes) =>
    /\ pc \notin {"exists", "read"}
    /\ fsOps = <<>>
    /\ pc = "done" =>
         /\ outcome.kind = "error"
         /\ outcome.exc = "TypeError"
         /\ outcome.origin = "load_csv"
         /\ outcome.arg = <<source.tag>>

\* None was rejected while a file was there to be read
C4_Witness ==
  /\ pc = "done"
  /\ source.tag = "NoneType"
  /\ outcome.exc = "TypeError"
  /\ fs["a"] = File(Csv1)

C6_TableInputTouchesNoFile ==
  (source.tag = "DataFrame") =>
    /\ pc \notin {"exists", "read"}
    /\ fsOps = <<>>
    /\ pc = "done" => outcome.kind = "table"

\* a DataFrame was copied while the filesystem held a file and had just changed
C6_Witness ==
  /\ pc = "done"
  /\ source.tag = "DataFrame"
  /\ outcome.kind = "table"
  /\ fs["a"] = File(Csv1)
  /\ dirty

\* the two sources are one path, as text and as the path object made from it
SamePath(s1, s2) ==
  /\ s1.tag = "str"
  /\ s2.tag = "PathLike"
  /\ s2.path = PurePathStr(s1.path)

\* C7: on one filesystem state, load_csv(p) and load_csv(Path(p)) have the
\* same outcome: equal tables, or the same kind of error.  (Stated as the
\* claim has it; the check is made on Path(p) in both calls, the read on the
\* text p in the first and on the normalised text in the second.)
C7_StrAndPathObjectAgree ==
  (pc = "done" /\ ~dirty /\ (SamePath(prev.source, source) \/ SamePath(source, prev.source))) =>
    Result(outcome, heap, objs) = prev.result

\* a path is the path of a well-formed CSV file: the file is there, has a
\* header line and every other non-blank line has as many fields as it
WellFormed(lines) ==
  /\ NonBlank(lines) # <<>>
  /\ \A i \in 1..Len(NonBlank(lines)) : Len(NonBlank(lines)[i]) = Len(NonBlank(lines)[1])

ReadOfWellFormed ==
  /\ pc = "done"
  /\ source.tag \in {"str", "PathLike"}
  /\ ~dirty
  /\ Resolve(source.path, fs).kind = "file"
  /\ WellFormed(Resolve(source.path, fs).lines)

\* the rows of t are the lines after the header, one each, in file order
RowsAreDataLines(t, recs) ==
  /\ Len(t.rows) = Len(recs) - 1
  /\ \A r \in 1..Len(t.rows) :
       /\ Len(t.rows[r]) = Len(recs[r + 1])
       /\ \A c \in 1..Len(t.rows[r]) :
            recs[r + 1][c] # "" => t.rows[r][c][2] = recs[r + 1][c]

Occurrences(fields, x) == Cardinality({i \in 1..Len(fields) : fields[i] = x})

C9_NoStateAcrossCalls ==
  [][/\ pc' # pc => fs' = fs
     /\ (pc' = "done" /\ ~dirty' /\ prev'.source = source') =>
          Result(outcome', heap', objs') = prev'.result]_vars

\* the same file was read a second time, with the same result
C9_Witness ==
  /\ pc = "done"
  /\ ~dirty
  /\ prev.source = source
  /\ outcome.kind = "table"
  /\ fs["a"] = File(Csv1)

\* C10: a failure after the existence check has passed reaches the caller as
\* read_csv raised it: one open and no retry, no DataFrame, not the error of
\* line 18; IsADirectoryError for a directory, and the parser's own
\* FileNotFoundError when the entry went away after the check.
C10_ReadFailurePropagates ==
  [][(pc = "read" /\ pc' = "done") =>
       LET e == Resolve(FsPath(source), fs)
           failed == IF e.kind = "file" THEN ParseLines(e.lines).kind = "error" ELSE TRUE
       IN failed =>
            /\ outcome'.kind = "error"
            /\ outcome'.origin = "read_csv"
            /\ outcome'.text # "File {} not found."
            /\ heap' = heap
            /\ Cardinality({i \in 1..Len(fsOps') : fsOps'[i][1] = "open"}) = 1
            /\ e.kind = "dir" => outcome'.exc = "IsADirectoryError"
            /\ e.kind = "ENOENT" => outcome'.exc = "FileNotFoundError"]_vars

\* the file was removed between the check and the read
C10_Witness ==
  /\ pc = "done"
  /\ dirty
  /\ source = Src("str", <<"a">>, 0)
  /\ Did("stat") /\ Did("open")
  /\ outcome.exc = "FileNotFoundError"
  /\ outcome.origin = "read_csv"
  /\ fs["a"] = Absent

====
